---- MODULE Spec2Model ----
(***************************************************************************)
(* A model of earthformer/common.py: github_raw_url, download_file and     *)
(* download_files.  Python strings are TLA+ strings; the os.path functions *)
(* are computed character by character as posixpath computes them.  The    *)
(* filesystem is a pair of sets of absolute normalised paths (directories  *)
(* and regular files).  gdown.download and the archive readers are the     *)
(* environment: their outcome is drawn nondeterministically.  The         *)
(* arguments quiet, proxy, speed, use_cookies, verify, id and resume are   *)
(* handed to gdown.download unread and are left out; fuzzy is given its    *)
(* default, False.                                                         *)
(***************************************************************************)
EXTENDS Naturals, Sequences, FiniteSets

VARIABLES
    dirs,       \* the directories on the filesystem (absolute paths)
    files,      \* the regular files on the filesystem (absolute paths)
    gdown,      \* whether `import gdown` succeeds in this interpreter
    pc,         \* "idle" | "batch" | "returned" | "raised"
    exc,        \* the exception that reached the caller, NoExc when none did
    batch,      \* the arguments of the download_files call
    idx,        \* position of the download_files loop in zip(urls, filenames)
    log,        \* the invocations of download_file so far, in order
    rawIn,      \* an argument given to github_raw_url
    rawOut      \* what github_raw_url returned for it

vars == <<dirs, files, gdown, pc, exc, batch, idx, log, rawIn, rawOut>>

----------------------------------------------------------------------------
(* Python values.  None and a non-string object are reserved tokens that   *)
(* are never used as text.                                                 *)

None == "<None>"

NotAString == "<int 7>"

IsStr(x) == x \notin {None, NotAString}

NoExc == "-"

----------------------------------------------------------------------------
(* str methods *)

Char(s, i) == SubSeq(s, i, i)

StartsWith(s, p) == Len(p) <= Len(s) /\ SubSeq(s, 1, Len(p)) = p

EndsWith(s, p) == Len(p) <= Len(s) /\ SubSeq(s, Len(s) - Len(p) + 1, Len(s)) = p

\* p in s
Contains(s, p) == \E i \in 1..(Len(s) + 1) :
                     i + Len(p) - 1 <= Len(s) /\ SubSeq(s, i, i + Len(p) - 1) = p

\* s.replace(old, new): every non-overlapping occurrence, left to right
RECURSIVE Replace(_, _, _)
Replace(s, old, new) ==
    IF Len(s) < Len(old) THEN s
    ELSE IF StartsWith(s, old)
         THEN new \o Replace(SubSeq(s, Len(old) + 1, Len(s)), old, new)
         ELSE Char(s, 1) \o Replace(Tail(s), old, new)

\* s.rfind(c) + 1: the 1-based place of the last c, 0 when there is none
RECURSIVE RFind1(_, _)
RFind1(s, c) ==
    IF s = "" THEN 0
    ELSE IF Char(s, Len(s)) = c THEN Len(s)
    ELSE RFind1(SubSeq(s, 1, Len(s) - 1), c)

RECURSIVE RStrip(_, _)
RStrip(s, c) == IF s # "" /\ EndsWith(s, c) THEN RStrip(SubSeq(s, 1, Len(s) - 1), c) ELSE s

AllChars(s, c) == \A i \in 1..Len(s) : Char(s, i) = c

----------------------------------------------------------------------------
(* posixpath *)

Cwd == "/w"

Basename(p) == SubSeq(p, RFind1(p, "/") + 1, Len(p))

Dirname(p) ==
    LET head == SubSeq(p, 1, RFind1(p, "/"))
    IN  IF head # "" /\ ~AllChars(head, "/") THEN RStrip(head, "/") ELSE head

Join(a, b) ==
    IF StartsWith(b, "/") THEN b
    ELSE IF a = "" \/ EndsWith(a, "/") THEN a \o b
    ELSE a \o "/" \o b

\* splitext(p)[0]: the extension is cut at the last dot of the last
\* component, unless only dots precede it there
SplitextRoot(p) ==
    LET sep == RFind1(p, "/")
        dot == RFind1(p, ".")
    IN  IF dot > sep /\ \E k \in (sep + 1)..(dot - 1) : Char(p, k) # "."
        THEN SubSeq(p, 1, dot - 1)
        ELSE p

\* p.split("/")
RECURSIVE SplitFrom(_, _, _)
SplitFrom(p, cur, acc) ==
    IF p = "" THEN Append(acc, cur)
    ELSE IF Head(p) = "/" THEN SplitFrom(Tail(p), "", Append(acc, cur))
    ELSE SplitFrom(Tail(p), cur \o Head(p), acc)

Split(p) == SplitFrom(p, "", <<>>)

RECURSIVE NormComps(_, _, _)
NormComps(comps, acc, rooted) ==
    IF comps = <<>> THEN acc
    ELSE LET c == Head(comps)
         IN  IF c \in {"", "."} THEN NormComps(Tail(comps), acc, rooted)
             ELSE IF \/ c # ".."
                     \/ (~rooted /\ acc = <<>>)
                     \/ (acc # <<>> /\ acc[Len(acc)] = "..")
                  THEN NormComps(Tail(comps), Append(acc, c), rooted)
             ELSE IF acc # <<>>
                  THEN NormComps(Tail(comps), SubSeq(acc, 1, Len(acc) - 1), rooted)
             ELSE NormComps(Tail(comps), acc, rooted)

RECURSIVE JoinComps(_)
JoinComps(comps) ==
    IF comps = <<>> THEN ""
    ELSE IF Len(comps) = 1 THEN comps[1]
    ELSE comps[1] \o "/" \o JoinComps(Tail(comps))

Normpath(p) ==
    IF p = "" THEN "."
    ELSE LET slashes == IF ~StartsWith(p, "/") THEN ""
                        ELSE IF StartsWith(p, "//") /\ ~StartsWith(p, "///") THEN "//"
                        ELSE "/"
             path == slashes \o JoinComps(NormComps(Split(p), <<>>, slashes # ""))
         IN  IF path = "" THEN "." ELSE path

Abspath(p) == Normpath(IF StartsWith(p, "/") THEN p ELSE Join(Cwd, p))

----------------------------------------------------------------------------
(* github_raw_url *)

github_raw_url(url) ==
    IF IsStr(url) /\ StartsWith(url, "https://github.com/") /\ Contains(url, "blob")
    THEN Replace(Replace(url, "github.com", "raw.githubusercontent.com"), "blob/", "")
    ELSE url

----------------------------------------------------------------------------
(* The filesystem: os.path.exists and os.makedirs *)

\* os.path.exists(p): the kernel resolves p against the working directory
Exists(d, f, p) == Abspath(p) \in d \cup f

\* an absolute path and every directory above it
RECURSIVE Ancestors(_)
Ancestors(p) == IF Dirname(p) = p THEN {p} ELSE {p} \cup Ancestors(Dirname(p))

\* os.makedirs(p): the leaf and every missing ancestor; fails when the leaf
\* exists or when a regular file stands on the way
Makedirs(d, f, p) ==
    LET need == Ancestors(Abspath(p))
    IN  IF Abspath(p) \in d \cup f THEN [dirs |-> d, exc |-> "FileExistsError"]
        ELSE IF need \cap f # {} THEN [dirs |-> d, exc |-> "NotADirectoryError"]
        ELSE [dirs |-> d \cup need, exc |-> NoExc]

----------------------------------------------------------------------------
(* The environment of one download_file call: what gdown.download does     *)
(* (returns the path, returns None, raises), the file name the server       *)
(* gives when the output is a directory, and whether the downloaded file   *)
(* is a readable archive.                                                  *)

Served == {"s.zip", "s.tar.gz"}

Envs == [xfer : {"ok", "none", "error"}, served : Served, archive : {"ok", "bad"}]

\* the name gdown's temporary file keeps when it is moved into a directory
TmpName == "tmp.part"

\* a file an archive holds
Member == "member.dat"

----------------------------------------------------------------------------
(* download_file, in the order of its statements *)

\* (mutant) the ImportError is not handled as a missing library
ImportGdownAssumed(avail) == TRUE

\* try: import gdown / except ImportError
ImportGdown(avail) == avail

\* output defaults to the basename of an http URL
DefaultOutput(url, output) ==
    IF output = None /\ IsStr(url) /\ StartsWith(url, "http")
    THEN Basename(url)
    ELSE output

OutDir(output) == Abspath(Dirname(output))

\* (mutant) the output directory is never created
EnsureOutDirNoMakedirs(d, f, out_dir) == [dirs |-> d, exc |-> NoExc]

\* if not os.path.exists(out_dir): os.makedirs(out_dir)
EnsureOutDir(d, f, out_dir) ==
    IF ~Exists(d, f, out_dir) THEN Makedirs(d, f, out_dir)
    ELSE [dirs |-> d, exc |-> NoExc]

\* (mutant) the sense of overwrite is inverted
SkipDownloadInverted(d, f, url, output, overwrite) ==
    IsStr(url) /\ Exists(d, f, Abspath(output)) /\ overwrite

\* the existence check that skips the download
SkipDownload(d, f, url, output, overwrite) ==
    IsStr(url) /\ Exists(d, f, Abspath(output)) /\ ~overwrite

Fuzzy(url, fuzzy) ==
    IF Contains(url, "https://drive.google.com/file/d/") THEN TRUE ELSE fuzzy

\* gdown.download(url, output, ...): writes the file and returns its path.
\* An output ending in "/" is a directory the served name is joined to; a
\* file moved onto an existing directory lands inside it.
Gdown(d, f, url, output, env) ==
    LET target == IF EndsWith(output, "/") THEN Join(output, env.served) ELSE output
        abs    == Abspath(target)
        dest   == IF abs \in d THEN Join(abs, TmpName) ELSE abs
    IN  IF env.xfer = "error" \/ target = "" \/ Dirname(dest) \notin d
        THEN [files |-> f, ret |-> None, exc |-> "DownloadError"]
        ELSE IF env.xfer = "none"
        THEN [files |-> f, ret |-> None, exc |-> NoExc]
        ELSE [files |-> f \cup {dest}, ret |-> target, exc |-> NoExc]

\* output.endswith(".zip") / (".tar.gz") / (".tar")
IsArchive(output) ==
    EndsWith(output, ".zip") \/ EndsWith(output, ".tar.gz") \/ EndsWith(output, ".tar")

\* basename = os.path.splitext(os.path.basename(output))[0]
\* output = os.path.join(out_dir, basename)
SubfolderPath(out_dir, output) == Join(out_dir, SplitextRoot(Basename(output)))

\* the directory handed to extractall
ExtractInto(out_dir, output, subfolder) ==
    IF subfolder THEN SubfolderPath(out_dir, output) ELSE Dirname(output)

\* what a call leaves behind when it has done nothing yet
Untouched(d, f, output) ==
    [dirs |-> d, files |-> f, ret |-> None, exc |-> NoExc, printed |-> "",
     outPath |-> output, skipped |-> FALSE, xfer |-> <<>>, got |-> None, ext |-> <<>>]

\* if unzip: ... the extraction of the file gdown returned, and the return
AfterTransfer(r, out_dir, got, unzip, subfolder, env) ==
    IF got = None
    THEN [r EXCEPT !.exc = IF unzip THEN "AttributeError" ELSE "TypeError"]
    ELSE IF ~(unzip /\ IsArchive(got))
    THEN [r EXCEPT !.ret = Abspath(got)]
    ELSE IF Abspath(got) \notin r.files
    THEN [r EXCEPT !.exc = "FileNotFoundError"]
    ELSE IF env.archive = "bad"
    THEN [r EXCEPT !.exc = "BadArchive"]
    ELSE LET into == ExtractInto(out_dir, got, subfolder)
             mk   == IF subfolder /\ ~Exists(r.dirs, r.files, into)
                     THEN Makedirs(r.dirs, r.files, into)
                     ELSE [dirs |-> r.dirs, exc |-> NoExc]
         IN  IF mk.exc # NoExc
             THEN [r EXCEPT !.exc = mk.exc]
             ELSE IF Abspath(into) \in r.files
             THEN [r EXCEPT !.dirs = mk.dirs, !.exc = "NotADirectoryError"]
             ELSE [r EXCEPT !.dirs = mk.dirs,
                            !.files = @ \cup {Join(Abspath(into), Member)},
                            !.ext = <<[archive |-> got, into |-> into]>>,
                            !.ret = Abspath(IF subfolder THEN into ELSE got)]

download_file(d, f, avail, url, output, unzip, overwrite, subfolder, env) ==
    IF ~ImportGdown(avail)
    THEN [Untouched(d, f, output) EXCEPT !.printed = "The gdown package is required"]
    ELSE LET out == DefaultOutput(url, output) IN
    IF ~IsStr(out)
    THEN [Untouched(d, f, out) EXCEPT !.exc = "TypeError"]
    ELSE LET out_dir == OutDir(out)
             mk      == EnsureOutDir(d, f, out_dir)
             r0      == [Untouched(d, f, out) EXCEPT !.dirs = mk.dirs]
         IN
    IF mk.exc # NoExc
    THEN [r0 EXCEPT !.exc = mk.exc]
    ELSE IF SkipDownload(mk.dirs, f, url, out, overwrite)
    THEN [r0 EXCEPT !.ret = Abspath(out), !.skipped = TRUE,
                    !.printed = "already exists. Skip downloading."]
    ELSE IF ~IsStr(url)
    THEN [r0 EXCEPT !.exc = "TypeError"]
    ELSE LET raw == github_raw_url(url)
             g   == Gdown(mk.dirs, f, raw, out, env)
             r1  == [r0 EXCEPT !.files = g.files, !.got = g.ret,
                               !.xfer = <<[url |-> raw, output |-> out,
                                           fuzzy |-> Fuzzy(raw, FALSE),
                                           dirs |-> mk.dirs, files |-> f]>>]
         IN  IF g.exc # NoExc
             THEN [r1 EXCEPT !.exc = g.exc]
             ELSE AfterTransfer(r1, out_dir, g.ret, unzip, subfolder, env)

\* one invocation of download_file: its arguments, the filesystem it found
\* and what it did
Invocation(d, f, avail, url, output, unzip, overwrite, subfolder, env) ==
    [url |-> url, output |-> output, unzip |-> unzip, overwrite |-> overwrite,
     subfolder |-> subfolder, preDirs |-> d, preFiles |-> f,
     res |-> download_file(d, f, avail, url, output, unzip, overwrite, subfolder, env)]

----------------------------------------------------------------------------
(* download_files *)

\* out_dir defaults to os.getcwd()
BatchDir(out_dir) == IF out_dir = None THEN Cwd ELSE out_dir

\* zip(urls, filenames), filenames defaulting to [None] * len(urls)
Zip(urls, names) ==
    LET n == IF Len(urls) <= Len(names) THEN Len(urls) ELSE Len(names)
    IN  [i \in 1..n |-> <<urls[i], names[i]>>]

Filenames(urls, given, names) ==
    IF given THEN names ELSE [i \in 1..Len(urls) |-> None]

\* (mutant) the URL itself, not its basename, names the file
DestinationFromUrl(out_dir, url, output) ==
    IF output = None THEN Join(out_dir, url) ELSE Join(out_dir, output)

\* the destination of one item
Destination(out_dir, url, output) ==
    IF output = None THEN Join(out_dir, Basename(url)) ELSE Join(out_dir, output)

\* (mutant) the loop swallows an item's exception and goes on
AfterItemSwallowed(e) == "batch"

\* no try/except around an item: an exception leaves the loop and the function
AfterItem(e) == IF e # NoExc THEN "raised" ELSE "batch"

----------------------------------------------------------------------------
(* Bounds and inputs *)

\* the longest urls list and the longest filenames list given to download_files
MaxLen == 3

\* the k entries of a list that repeats cat, from its s-th on
Window(cat, s, k) == [i \in 1..k |-> cat[((s + i - 2) % Len(cat)) + 1]]

Windows(cat, n) == {Window(cat, s, k) : s \in 1..Len(cat), k \in 0..n}

Urls ==
    {"https://github.com/o/r/blob/m/a.zip", "https://x.io/d/b.tar.gz", "https://x.io/d/",
     "https://drive.google.com/file/d/1", "ftp://x.io/c.tar", None}

Outputs ==
    {None, "a.zip", "d/a.zip", "n/", "d", "b.tar.gz", "c.tar", "e.txt", "a.zip/x"}

BatchUrls == <<"https://x.io/d/b.tar.gz", "https://x.io/d/", None>>

BatchNames == <<None, "c.tar", "/w/k.zip">>

BatchDirs == {None, "o"}

BatchFlags == [unzip : BOOLEAN, overwrite : BOOLEAN, subfolder : BOOLEAN]

\* the filesystems a call may find
InitFs ==
    {[dirs |-> {"/", "/w"}, files |-> {}],
     [dirs |-> {"/", "/w", "/w/d"}, files |-> {}],
     [dirs |-> {"/", "/w", "/w/d"}, files |-> {"/w/a.zip", "/w/d/a.zip"}]}

NoBatch ==
    [called |-> FALSE, urls |-> <<>>, given |-> FALSE, names |-> <<>>, out_dir |-> None,
     unzip |-> FALSE, overwrite |-> FALSE, subfolder |-> FALSE, pairs |-> <<>>]

Unset == "<unset>"

----------------------------------------------------------------------------
(* The calls *)

Init ==
    /\ \E fs \in InitFs : dirs = fs.dirs /\ files = fs.files
    /\ gdown \in BOOLEAN
    /\ pc = "idle"
    /\ exc = NoExc
    /\ batch = NoBatch
    /\ idx = 0
    /\ log = <<>>
    /\ rawIn = Unset
    /\ rawOut = Unset

\* download_file(url, output, unzip=, overwrite=, subfolder=)
CallDownloadFile ==
    /\ pc = "idle"
    /\ \E url \in Urls, output \in Outputs, unzip \in BOOLEAN, overwrite \in BOOLEAN,
          subfolder \in BOOLEAN, env \in Envs :
          \E inv \in {Invocation(dirs, files, gdown, url, output, unzip, overwrite,
                                    subfolder, env)} :
              /\ log' = Append(log, inv)
              /\ dirs' = inv.res.dirs
              /\ files' = inv.res.files
              /\ exc' = inv.res.exc
              /\ pc' = IF inv.res.exc # NoExc THEN "raised" ELSE "returned"
    /\ UNCHANGED <<gdown, batch, idx, rawIn, rawOut>>

\* download_files(urls, out_dir, filenames, ...) up to the loop
CallDownloadFiles ==
    /\ pc = "idle"
    /\ \E urls \in Windows(BatchUrls, MaxLen), out_dir \in BatchDirs, given \in BOOLEAN,
          names \in Windows(BatchNames, MaxLen), fl \in BatchFlags :
          /\ given \/ names = <<>>
          /\ batch' = [called |-> TRUE, urls |-> urls, given |-> given, names |-> names,
                       out_dir |-> out_dir, unzip |-> fl.unzip, overwrite |-> fl.overwrite,
                       subfolder |-> fl.subfolder,
                       pairs |-> Zip(urls, Filenames(urls, given, names))]
    /\ idx' = 1
    /\ pc' = "batch"
    /\ UNCHANGED <<dirs, files, gdown, exc, log, rawIn, rawOut>>

\* one turn of the loop whose os.path.basename(url) raises
BatchItemBadUrl ==
    /\ pc = "batch"
    /\ idx <= Len(batch.pairs)
    /\ batch.pairs[idx][2] = None
    /\ ~IsStr(batch.pairs[idx][1])
    /\ exc' = "TypeError"
    /\ pc' = AfterItem("TypeError")
    /\ idx' = IF AfterItem("TypeError") = "raised" THEN idx ELSE idx + 1
    /\ UNCHANGED <<dirs, files, gdown, batch, log, rawIn, rawOut>>

\* one turn of the loop: the destination, then download_file
BatchItem ==
    /\ pc = "batch"
    /\ idx <= Len(batch.pairs)
    /\ ~(batch.pairs[idx][2] = None /\ ~IsStr(batch.pairs[idx][1]))
    /\ \E env \in Envs :
          \E inv \in {Invocation(dirs, files, gdown, batch.pairs[idx][1],
                                    Destination(BatchDir(batch.out_dir), batch.pairs[idx][1],
                                                batch.pairs[idx][2]),
                                    batch.unzip, batch.overwrite, batch.subfolder, env)} :
              /\ log' = Append(log, inv)
              /\ dirs' = inv.res.dirs
              /\ files' = inv.res.files
              /\ exc' = inv.res.exc
              /\ pc' = AfterItem(inv.res.exc)
              /\ idx' = IF AfterItem(inv.res.exc) = "raised" THEN idx ELSE idx + 1
    /\ UNCHANGED <<gdown, batch, rawIn, rawOut>>

\* the loop is exhausted: download_files returns None
BatchReturn ==
    /\ pc = "batch"
    /\ idx > Len(batch.pairs)
    /\ pc' = "returned"
    /\ UNCHANGED <<dirs, files, gdown, exc, batch, idx, log, rawIn, rawOut>>

Next == CallDownloadFile \/ CallDownloadFiles \/ BatchItemBadUrl \/ BatchItem \/ BatchReturn

Spec == Init /\ [][Next]_vars

----------------------------------------------------------------------------
(* github_raw_url on its own *)

RawHosts ==
    {"https://github.com/", "http://github.com/", "https://gitlab.com/",
     "https://raw.githubusercontent.com/"}

RawOwners == {"o", "blobby", "github.com"}

RawMarkers == {"/blob/", "/tree/", "/raw/", "/"}

RawRefs == {"m", "blob"}

RawPaths == {"a.zip", "blob/a.py", "myblob/a", "x/blob"}

RawInputs ==
    {h \o o \o "/r" \o k \o r \o "/" \o p :
        h \in RawHosts, o \in RawOwners, k \in RawMarkers, r \in RawRefs, p \in RawPaths}
    \cup {None, NotAString}

RawInit ==
    /\ dirs = {"/", "/w"}
    /\ files = {}
    /\ gdown = TRUE
    /\ pc = "idle"
    /\ exc = NoExc
    /\ batch = NoBatch
    /\ idx = 0
    /\ log = <<>>
    /\ rawIn \in RawInputs
    /\ rawOut = Unset

CallGithubRawUrl ==
    /\ pc = "idle"
    /\ rawOut' = github_raw_url(rawIn)
    /\ pc' = "returned"
    /\ UNCHANGED <<dirs, files, gdown, exc, batch, idx, log, rawIn>>

RawNext == CallGithubRawUrl

SpecRaw == RawInit /\ [][RawNext]_vars

----------------------------------------------------------------------------
(* Vocabulary of the properties *)

Invocations == {log[k] : k \in 1..Len(log)}

\* the output path a call works on: the one given, else the URL's basename
TargetOf(inv) == DefaultOutput(inv.url, inv.output)

\* something stood at the call's output path when the call began
ExistedBefore(inv) ==
    IsStr(TargetOf(inv)) /\ Abspath(TargetOf(inv)) \in inv.preDirs \cup inv.preFiles

\* the call changed nothing on the filesystem
FsUntouched(inv) == inv.res.dirs = inv.preDirs /\ inv.res.files = inv.preFiles

\* the call ran gdown.download and got the downloaded file's path back
Transferred(inv) == inv.res.xfer # <<>> /\ inv.res.got # None

\* the file name without its archive extension
StripArchiveExt(name) ==
    IF EndsWith(name, ".tar.gz") THEN SubSeq(name, 1, Len(name) - 7)
    ELSE IF EndsWith(name, ".zip") \/ EndsWith(name, ".tar") THEN SubSeq(name, 1, Len(name) - 4)
    ELSE name

HasArchiveExt(name) ==
    EndsWith(name, ".zip") \/ EndsWith(name, ".tar") \/ EndsWith(name, ".tar.gz")

----------------------------------------------------------------------------
(* C1 *)

SkipsCleanly(inv) ==
    /\ inv.res.exc = NoExc
    /\ inv.res.ret = Abspath(TargetOf(inv))
    /\ inv.res.xfer = <<>>
    /\ inv.res.ext = <<>>
    /\ FsUntouched(inv)

\* C1 (as stated): every call with a string URL whose output path already
\* exists and without overwrite returns the absolute output path, runs no
\* transfer and no extraction, and leaves the filesystem as it was.
C1_ExistingOutputSkipped ==
    \A inv \in Invocations :
        (IsStr(inv.url) /\ ExistedBefore(inv) /\ ~inv.overwrite) => SkipsCleanly(inv)

\* C1 (amended): the same, for calls made where gdown can be imported.
C1_ExistingOutputSkippedWithGdown ==
    \A inv \in Invocations :
        (gdown /\ IsStr(inv.url) /\ ExistedBefore(inv) /\ ~inv.overwrite) => SkipsCleanly(inv)

\* an existing archive is asked for again with unzip and is left alone
C1_Witness ==
    \E inv \in Invocations :
        /\ gdown /\ IsStr(inv.url) /\ ExistedBefore(inv) /\ ~inv.overwrite
        /\ inv.unzip /\ HasArchiveExt(TargetOf(inv))
        /\ Abspath(TargetOf(inv)) \in inv.preFiles
        /\ inv.res.ret = Abspath(TargetOf(inv))

----------------------------------------------------------------------------
(* C2 *)

GitHub == "https://github.com/"

\* https://github.com/<owner>/<repo>/blob/<ref>/<path>
IsBlobUrl(url) ==
    /\ IsStr(url)
    /\ StartsWith(url, GitHub)
    /\ LET c == Split(SubSeq(url, Len(GitHub) + 1, Len(url)))
       IN  Len(c) >= 5 /\ c[1] # "" /\ c[2] # "" /\ c[3] = "blob" /\ c[4] # ""

\* https://raw.githubusercontent.com/<owner>/<repo>/<ref>/<path>
RawEquivalent(url) ==
    LET c == Split(SubSeq(url, Len(GitHub) + 1, Len(url)))
    IN  "https://raw.githubusercontent.com/"
            \o JoinComps(<<c[1], c[2]>> \o SubSeq(c, 4, Len(c)))

\* C2: github_raw_url maps every GitHub blob URL to its raw-content
\* equivalent, changing only the host and the one blob/ segment, and returns
\* everything else unchanged.
C2_RawUrlOfBlobOnly ==
    rawOut # Unset =>
        rawOut = IF IsBlobUrl(rawIn) THEN RawEquivalent(rawIn) ELSE rawIn

----------------------------------------------------------------------------
(* C3 *)

\* the directory that holds the downloaded file
HoldingDir(inv) == Abspath(Dirname(inv.res.got))

\* C3: after a transfer, with unzip and a .zip/.tar/.tar.gz file name the
\* archive is extracted into the directory holding the file, or with
\* subfolder into the subfolder of it named after the archive without its
\* archive extension; otherwise nothing is extracted.
C3_ExtractedWhereSaid ==
    \A inv \in Invocations :
        (Transferred(inv) /\ inv.res.exc = NoExc) =>
            IF inv.unzip /\ HasArchiveExt(Basename(inv.res.got))
            THEN /\ Len(inv.res.ext) = 1
                 /\ Abspath(inv.res.ext[1].into) =
                        IF inv.subfolder
                        THEN Join(HoldingDir(inv), StripArchiveExt(Basename(inv.res.got)))
                        ELSE HoldingDir(inv)
                 /\ Abspath(inv.res.ext[1].into) \in inv.res.dirs
            ELSE inv.res.ext = <<>>

----------------------------------------------------------------------------
(* C4 *)

\* C4: every call that completes a transfer returns the absolute path of the
\* downloaded file, whatever unzip, subfolder and the extension are.
C4_ReturnsDownloadedFile ==
    \A inv \in Invocations :
        (Transferred(inv) /\ inv.res.exc = NoExc) => inv.res.ret = Abspath(inv.res.got)

----------------------------------------------------------------------------
(* C5 *)

\* the filenames entry of item k, None when no list was given
NameOf(k) == IF batch.given THEN batch.names[k] ELSE None

\* C5: the destination download_files passes for an item is out_dir (the
\* working directory when not given) joined with the item's filename, or with
\* the basename of its URL when the filename is absent.
C5_DestinationJoined ==
    batch.called =>
        \A k \in 1..Len(log) :
            /\ k <= Len(batch.urls)
            /\ batch.given => k <= Len(batch.names)
            /\ log[k].url = batch.urls[k]
            /\ log[k].output =
                  Join(IF batch.out_dir = None THEN Cwd ELSE batch.out_dir,
                       IF NameOf(k) = None THEN Basename(batch.urls[k]) ELSE NameOf(k))

\* one item named by its URL's basename, the next by its filename
C5_Witness ==
    /\ batch.called /\ batch.given /\ batch.out_dir = None
    /\ Len(log) = 2
    /\ NameOf(1) = None /\ log[1].output = "/w/b.tar.gz"
    /\ NameOf(2) = "c.tar" /\ log[2].output = "/w/c.tar"

----------------------------------------------------------------------------
(* C6 *)

\* C6: download_files handles the items one after another in list order; an
\* exception raised in item i reaches the caller, nothing is done for the
\* items after i, and what the items before i did stays.
C6_FailureAbortsBatch ==
    batch.called =>
        /\ \A k \in 1..Len(log) :
              /\ log[k].url = batch.pairs[k][1]
              /\ log[k].res.exc # NoExc =>
                    k = Len(log) /\ pc = "raised" /\ exc = log[k].res.exc
              /\ k < Len(log) =>
                    /\ log[k + 1].preDirs = log[k].res.dirs
                    /\ log[k + 1].preFiles = log[k].res.files
              /\ log[k].res.dirs \subseteq dirs
              /\ log[k].res.files \subseteq files
        /\ log # <<>> => dirs = log[Len(log)].res.dirs /\ files = log[Len(log)].res.files
        /\ pc = "raised" =>
              /\ exc # NoExc
              /\ idx <= Len(batch.pairs)
              /\ Len(log) \in {idx - 1, idx}
        /\ pc \in {"batch", "returned"} => exc = NoExc /\ Len(log) = idx - 1

\* the second of three items fails after the first has downloaded its file
C6_Witness ==
    /\ batch.called /\ pc = "raised"
    /\ Len(batch.pairs) = 3
    /\ Len(log) = 2
    /\ Transferred(log[1]) /\ log[1].res.exc = NoExc
    /\ Abspath(log[1].res.got) \in files \ log[1].preFiles
    /\ log[2].res.xfer # <<>>
    /\ log[2].res.exc # NoExc
    /\ exc = log[2].res.exc

----------------------------------------------------------------------------
(* C7 *)

\* C7: without gdown, download_file prints a message and returns None for
\* any arguments: no exception, no transfer, no extraction, nothing created.
C7_MissingGdownSkips ==
    \A inv \in Invocations :
        ~gdown =>
            /\ inv.res.ret = None
            /\ inv.res.exc = NoExc
            /\ inv.res.printed # ""
            /\ inv.res.xfer = <<>>
            /\ inv.res.ext = <<>>
            /\ FsUntouched(inv)

\* a call that would otherwise create d/ and fail on its URL
C7_Witness ==
    /\ ~gdown
    /\ pc = "returned"
    /\ \E inv \in Invocations :
          /\ inv.output = "d/a.zip"
          /\ "/w/d" \notin inv.preDirs
          /\ ~IsStr(inv.url)
          /\ inv.res.ret = None

----------------------------------------------------------------------------
(* C8 *)

\* the parent of the output path a transfer is given
ParentOf(x) == Abspath(Dirname(x.output))

\* C8 (as stated): when gdown.download is invoked, the parent directory of
\* the output path is a directory on the filesystem.
C8_ParentDirectoryAtTransfer ==
    \A inv \in Invocations :
        \A i \in 1..Len(inv.res.xfer) : ParentOf(inv.res.xfer[i]) \in inv.res.xfer[i].dirs

\* C8 (amended): when gdown.download is invoked, the parent path of the
\* output path exists: it is a directory unless a regular file stood there
\* already; it was created with its missing ancestors if nothing stood
\* there, and nothing was touched if something did.
C8_ParentExistsAtTransfer ==
    \A inv \in Invocations :
        \A i \in 1..Len(inv.res.xfer) :
            LET x == inv.res.xfer[i]
                parent == ParentOf(x)
            IN  /\ parent \in x.dirs \cup x.files
                /\ parent \notin inv.preFiles => parent \in x.dirs
                /\ x.files = inv.preFiles
                /\ IF parent \in inv.preDirs \cup inv.preFiles
                   THEN x.dirs = inv.preDirs
                   ELSE x.dirs = inv.preDirs \cup Ancestors(parent)

\* the missing directory d/ is made and the file is written into it
C8_Witness ==
    \E inv \in Invocations :
        /\ inv.res.xfer # <<>>
        /\ ParentOf(inv.res.xfer[1]) = "/w/d"
        /\ "/w/d" \notin inv.preDirs
        /\ "/w/d" \in inv.res.xfer[1].dirs
        /\ "/w/d/a.zip" \in inv.res.files

----------------------------------------------------------------------------
(* C9 *)

\* C9: download_file skips the transfer only when something stood at the
\* output path before the call began, never because of a directory the call
\* itself created; with overwrite, a call that gets as far as the existence
\* check always invokes the transfer.
C9_SkipOnlyIfExistedBefore ==
    \A inv \in Invocations :
        /\ inv.res.skipped => ExistedBefore(inv)
        /\ (gdown /\ inv.overwrite /\ IsStr(inv.url) /\ IsStr(TargetOf(inv))) =>
              inv.res.xfer # <<>>

----------------------------------------------------------------------------
(* C10 *)

\* C10: when download_files returns (no item failed), download_file has been
\* invoked exactly once for every URL of urls, in list order, whatever the
\* length of filenames.
C10_EveryUrlDownloaded ==
    (batch.called /\ pc = "returned" /\ \A k \in 1..Len(batch.urls) : IsStr(batch.urls[k])) =>
        /\ Len(log) = Len(batch.urls)
        /\ \A k \in 1..Len(log) : log[k].url = batch.urls[k]
====
